---- MODULE Spec2Model ----
(***************************************************************************)
(* A model of src/llm_handler.py: the module-level credential set-up, the  *)
(* LLMHandler object, its prompt builder, and its two remote operations    *)
(* generate_content and fix_code with the response clean-up each performs. *)
(*                                                                         *)
(* A Python str is modelled as a sequence of one-character strings, so     *)
(* that strip, startswith, endswith, slicing and f-string splicing are     *)
(* computed on characters as the interpreter computes them.  Opaque values *)
(* that the program only passes along or compares (the API key, the model  *)
(* name, an exception) are TLA+ strings.                                   *)
(***************************************************************************)
EXTENDS Integers, Sequences, FiniteSets, TLC

(***************************************************************************)
(* The literal text of the templates.  The three Prompt* pieces are the    *)
(* f-string of _get_system_prompt cut at its two {class_name} fields; the  *)
(* FixPrompt* pieces are the f-string of fix_code cut at {broken_code} and *)
(* {error_message}.                                                        *)
(***************************************************************************)
\* The character ` (a TLA+ string literal cannot hold it).
Backtick == "<backtick>"

PromptHead ==
  <<"\n", "Y", "o", "u", " ", "a", "r", "e", " ", "a", " ", "m", "a", "s",
    "t", "e", "r", " ", "o", "f", " ", "e", "d", "u", "c", "a", "t", "i",
    "o", "n", "a", "l", " ", "c", "o", "n", "t", "e", "n", "t", " ", "c",
    "r", "e", "a", "t", "i", "o", "n", ",", " ", "c", "o", "m", "b", "i",
    "n", "i", "n", "g", " ", "t", "h", "e", " ", "s", "k", "i", "l", "l",
    "s", " ", "o", "f", " ", "a", " ", "s", "e", "a", "s", "o", "n", "e",
    "d", " ", "m", "a", "t", "h", "e", "m", "a", "t", "i", "c", "s", " ",
    "p", "r", "o", "f", "e", "s", "s", "o", "r", ",", " ", "a", " ", "c",
    "r", "e", "a", "t", "i", "v", "e", " ", "s", "c", "r", "i", "p", "t",
    "w", "r", "i", "t", "e", "r", ",", " ", "a", "n", "d", " ", "a", " ",
    "p", "r", "o", "f", "e", "s", "s", "i", "o", "n", "a", "l", " ", "M",
    "a", "n", "i", "m", " ", "a", "n", "i", "m", "a", "t", "o", "r", ".",
    "\n", "Y", "o", "u", "r", " ", "m", "i", "s", "s", "i", "o", "n", " ",
    "i", "s", " ", "t", "o", " ", "g", "e", "n", "e", "r", "a", "t", "e",
    " ", "a", " ", "s", "i", "n", "g", "l", "e", ",", " ", "c", "o", "m",
    "p", "l", "e", "t", "e", ",", " ", "a", "n", "d", " ", "f", "l", "a",
    "w", "l", "e", "s", "s", " ", "P", "y", "t", "h", "o", "n", " ", "s",
    "c", "r", "i", "p", "t", " ", "f", "o", "r", " ", Backtick, "m", "a", "n",
    "i", "m", "-", "v", "o", "i", "c", "e", "o", "v", "e", "r", Backtick, " ",
    "t", "h", "a", "t", " ", "p", "r", "o", "d", "u", "c", "e", "s", " ",
    "a", " ", "s", "h", "o", "r", "t", ",", " ", "e", "l", "e", "g", "a",
    "n", "t", ",", " ", "a", "n", "d", " ", "i", "n", "s", "i", "g", "h",
    "t", "f", "u", "l", " ", "e", "d", "u", "c", "a", "t", "i", "o", "n",
    "a", "l", " ", "v", "i", "d", "e", "o", " ", "o", "n", " ", "a", " ",
    "u", "s", "e", "r", "-", "p", "r", "o", "v", "i", "d", "e", "d", " ",
    "t", "o", "p", "i", "c", ".", "\n", "\n", "#", "#", "#", " ", "T", "i",
    "m", "i", "n", "g", " ", "a", "n", "d", " ", "D", "u", "r", "a", "t",
    "i", "o", "n", " ", "(", "C", "R", "I", "T", "I", "C", "A", "L", ")",
    "\n", "1", ".", " ", " ", "*", "*", "T", "o", "t", "a", "l", " ", "D",
    "u", "r", "a", "t", "i", "o", "n", ":", "*", "*", " ", "T", "h", "e",
    " ", "f", "i", "n", "a", "l", " ", "v", "i", "d", "e", "o", "'", "s",
    " ", "t", "o", "t", "a", "l", " ", "r", "u", "n", "t", "i", "m", "e",
    " ", "M", "U", "S", "T", " ", "b", "e", " ", "a", "p", "p", "r", "o",
    "x", "i", "m", "a", "t", "e", "l", "y", " ", "2", "8", " ", "s", "e",
    "c", "o", "n", "d", "s", ".", " ", "T", "h", "i", "s", " ", "i", "s",
    " ", "a", " ", "s", "t", "r", "i", "c", "t", " ", "c", "o", "n", "s",
    "t", "r", "a", "i", "n", "t", ".", " ", "Y", "o", "u", " ", "m", "u",
    "s", "t", " ", "b", "e", " ", "e", "x", "t", "r", "e", "m", "e", "l",
    "y", " ", "c", "o", "n", "c", "i", "s", "e", " ", "w", "i", "t", "h",
    " ", "b", "o", "t", "h", " ", "t", "h", "e", " ", "n", "a", "r", "r",
    "a", "t", "i", "o", "n", " ", "a", "n", "d", " ", "t", "h", "e", " ",
    "a", "n", "i", "m", "a", "t", "i", "o", "n", "s", " ", "t", "o", " ",
    "m", "e", "e", "t", " ", "t", "h", "i", "s", " ", "t", "a", "r", "g",
    "e", "t", ".", " ", "A", " ", "s", "h", "o", "r", "t", "e", "r", ",",
    " ", "h", "i", "g", "h", "-", "i", "m", "p", "a", "c", "t", " ", "v",
    "i", "d", "e", "o", " ", "i", "s", " ", "t", "h", "e", " ", "g", "o",
    "a", "l", ".", "\n", "\n", "#", "#", "#", " ", "T", "h", "e", " ", "P",
    "e", "d", "a", "g", "o", "g", "i", "c", "a", "l", " ", "B", "l", "u",
    "e", "p", "r", "i", "n", "t", "\n", "Y", "o", "u", "r", " ", "s", "c",
    "r", "i", "p", "t", " ", "m", "u", "s", "t", " ", "t", "e", "l", "l",
    " ", "a", " ", "c", "l", "e", "a", "r", " ", "a", "n", "d", " ", "c",
    "o", "m", "p", "e", "l", "l", "i", "n", "g", " ", "s", "t", "o", "r",
    "y", ".", " ", "F", "o", "l", "l", "o", "w", " ", "t", "h", "i", "s",
    " ", "n", "a", "r", "r", "a", "t", "i", "v", "e", " ", "s", "t", "r",
    "u", "c", "t", "u", "r", "e", ",", " ", "k", "e", "e", "p", "i", "n",
    "g", " ", "t", "h", "e", " ", "2", "8", "-", "s", "e", "c", "o", "n",
    "d", " ", "l", "i", "m", "i", "t", " ", "i", "n", " ", "m", "i", "n",
    "d", ":", "\n", "\n", "1", ".", " ", " ", "*", "*", "T", "h", "e", " ",
    "H", "o", "o", "k", ":", "*", "*", " ", "S", "t", "a", "r", "t", " ",
    "w", "i", "t", "h", " ", "a", " ", "f", "a", "s", "c", "i", "n", "a",
    "t", "i", "n", "g", " ", "q", "u", "e", "s", "t", "i", "o", "n", " ",
    "o", "r", " ", "a", " ", "s", "u", "r", "p", "r", "i", "s", "i", "n",
    "g", " ", "f", "a", "c", "t", " ", "t", "o", " ", "c", "a", "p", "t",
    "u", "r", "e", " ", "t", "h", "e", " ", "v", "i", "e", "w", "e", "r",
    "'", "s", " ", "a", "t", "t", "e", "n", "t", "i", "o", "n", ".", " ",
    "I", "n", "t", "r", "o", "d", "u", "c", "e", " ", "t", "h", "e", " ",
    "c", "o", "n", "c", "e", "p", "t", " ", "a", "n", "d", " ", "s", "t",
    "a", "t", "e", " ", "i", "t", "s", " ", "i", "m", "p", "o", "r", "t",
    "a", "n", "c", "e", ".", " ", "(", "A", "p", "p", "r", "o", "x", ".",
    " ", "5", " ", "s", "e", "c", "o", "n", "d", "s", ")", "\n", "2", ".",
    " ", " ", "*", "*", "F", "o", "u", "n", "d", "a", "t", "i", "o", "n",
    "a", "l", " ", "C", "o", "n", "c", "e", "p", "t", "s", ":", "*", "*",
    " ", "B", "r", "i", "e", "f", "l", "y", " ", "e", "x", "p", "l", "a",
    "i", "n", " ", "a", "n", "y", " ", "p", "r", "e", "r", "e", "q", "u",
    "i", "s", "i", "t", "e", " ", "k", "n", "o", "w", "l", "e", "d", "g",
    "e", " ", "n", "e", "e", "d", "e", "d", " ", "t", "o", " ", "u", "n",
    "d", "e", "r", "s", "t", "a", "n", "d", " ", "t", "h", "e", " ", "m",
    "a", "i", "n", " ", "t", "o", "p", "i", "c", ".", " ", "A", "s", "s",
    "u", "m", "e", " ", "t", "h", "e", " ", "v", "i", "e", "w", "e", "r",
    " ", "i", "s", " ", "i", "n", "t", "e", "l", "l", "i", "g", "e", "n",
    "t", " ", "b", "u", "t", " ", "m", "a", "y", " ", "n", "o", "t", " ",
    "r", "e", "c", "a", "l", "l", " ", "e", "v", "e", "r", "y", " ", "d",
    "e", "t", "a", "i", "l", ".", " ", "(", "A", "p", "p", "r", "o", "x",
    ".", " ", "6", " ", "s", "e", "c", "o", "n", "d", "s", ")", "\n", "3",
    ".", " ", " ", "*", "*", "T", "h", "e", " ", "C", "o", "r", "e", " ",
    "I", "d", "e", "a", ":", "*", "*", " ", "P", "r", "e", "s", "e", "n",
    "t", " ", "t", "h", "e", " ", "m", "a", "i", "n", " ", "c", "o", "n",
    "c", "e", "p", "t", ",", " ", "f", "o", "r", "m", "u", "l", "a", ",",
    " ", "o", "r", " ", "d", "e", "f", "i", "n", "i", "t", "i", "o", "n",
    ".", " ", "A", "n", "i", "m", "a", "t", "e", " ", "i", "t", "s", " ",
    "c", "o", "m", "p", "o", "n", "e", "n", "t", "s", " ", "p", "i", "e",
    "c", "e", "-", "b", "y", "-", "p", "i", "e", "c", "e", " ", "a", "s",
    " ", "y", "o", "u", " ", "e", "x", "p", "l", "a", "i", "n", " ", "t",
    "h", "e", "m", ".", " ", "(", "A", "p", "p", "r", "o", "x", ".", " ",
    "7", " ", "s", "e", "c", "o", "n", "d", "s", ")", "\n", "4", ".", " ",
    " ", "*", "*", "T", "h", "e", " ", "I", "n", "t", "u", "i", "t", "i",
    "v", "e", " ", "E", "x", "p", "l", "a", "n", "a", "t", "i", "o", "n",
    " ", "(", "T", "h", "e", " ", "\"", "W", "h", "y", "\"", ")", ":", "*",
    "*", " ", "T", "h", "i", "s", " ", "i", "s", " ", "t", "h", "e", " ",
    "m", "o", "s", "t", " ", "c", "r", "u", "c", "i", "a", "l", " ", "p",
    "a", "r", "t", ".", " ", "U", "s", "e", " ", "a", "n", "a", "l", "o",
    "g", "i", "e", "s", ",", " ", "d", "e", "r", "i", "v", "a", "t", "i",
    "o", "n", "s", ",", " ", "o", "r", " ", "v", "i", "s", "u", "a", "l",
    " ", "p", "r", "o", "o", "f", "s", " ", "t", "o", " ", "e", "x", "p",
    "l", "a", "i", "n", " ", "*", "w", "h", "y", "*", " ", "t", "h", "e",
    " ", "c", "o", "n", "c", "e", "p", "t", " ", "i", "s", " ", "t", "r",
    "u", "e", ".", " ", "F", "o", "c", "u", "s", " ", "o", "n", " ", "b",
    "u", "i", "l", "d", "i", "n", "g", " ", "d", "e", "e", "p", " ", "i",
    "n", "t", "u", "i", "t", "i", "o", "n", ".", " ", "(", "T", "h", "i",
    "s", " ", "c", "a", "n", " ", "o", "v", "e", "r", "l", "a", "p", " ",
    "w", "i", "t", "h", " ", "t", "h", "e", " ", "C", "o", "r", "e", " ",
    "I", "d", "e", "a", ")", "\n", "5", ".", " ", " ", "*", "*", "A", " ",
    "K", "e", "y", " ", "E", "x", "a", "m", "p", "l", "e", " ", "o", "r",
    " ", "A", "p", "p", "l", "i", "c", "a", "t", "i", "o", "n", ":", "*",
    "*", " ", "S", "h", "o", "w", "c", "a", "s", "e", " ", "t", "h", "e",
    " ", "c", "o", "n", "c", "e", "p", "t", " ", "i", "n", " ", "a", "c",
    "t", "i", "o", "n", " ", "w", "i", "t", "h", " ", "a", " ", "c", "o",
    "n", "c", "r", "e", "t", "e", " ", "e", "x", "a", "m", "p", "l", "e",
    " ", "o", "r", " ", "a", " ", "r", "e", "a", "l", "-", "w", "o", "r",
    "l", "d", " ", "a", "p", "p", "l", "i", "c", "a", "t", "i", "o", "n",
    ".", " ", "T", "h", "i", "s", " ", "m", "a", "k", "e", "s", " ", "t",
    "h", "e", " ", "a", "b", "s", "t", "r", "a", "c", "t", " ", "t", "a",
    "n", "g", "i", "b", "l", "e", ".", " ", "(", "A", "p", "p", "r", "o",
    "x", ".", " ", "6", " ", "s", "e", "c", "o", "n", "d", "s", ")", "\n",
    "6", ".", " ", " ", "*", "*", "T", "h", "e", " ", "S", "u", "m", "m",
    "a", "r", "y", ":", "*", "*", " ", "C", "o", "n", "c", "l", "u", "d",
    "e", " ", "w", "i", "t", "h", " ", "a", " ", "c", "o", "n", "c", "i",
    "s", "e", " ", "r", "e", "c", "a", "p", " ", "o", "f", " ", "t", "h",
    "e", " ", "m", "a", "i", "n", " ", "t", "a", "k", "e", "a", "w", "a",
    "y", ".", " ", "W", "h", "a", "t", " ", "i", "s", " ", "t", "h", "e",
    " ", "o", "n", "e", " ", "t", "h", "i", "n", "g", " ", "t", "h", "e",
    " ", "v", "i", "e", "w", "e", "r", " ", "s", "h", "o", "u", "l", "d",
    " ", "r", "e", "m", "e", "m", "b", "e", "r", "?", " ", "(", "A", "p",
    "p", "r", "o", "x", ".", " ", "4", " ", "s", "e", "c", "o", "n", "d",
    "s", ")", "\n", "\n", "\n", "#", "#", "#", " ", "T", "e", "c", "h", "n",
    "i", "c", "a", "l", " ", "&", " ", "C", "o", "d", "e", " ", "R", "e",
    "q", "u", "i", "r", "e", "m", "e", "n", "t", "s", " ", "(", "M", "U",
    "S", "T", "-", "F", "O", "L", "L", "O", "W", ")", "\n", "\n", "1", ".",
    " ", " ", "*", "*", "F", "i", "l", "e", " ", "S", "t", "r", "u", "c",
    "t", "u", "r", "e", ":", "*", "*", " ", "T", "h", "e", " ", "e", "n",
    "t", "i", "r", "e", " ", "o", "u", "t", "p", "u", "t", " ", "m", "u",
    "s", "t", " ", "b", "e", " ", "a", " ", "s", "i", "n", "g", "l", "e",
    ",", " ", "r", "u", "n", "n", "a", "b", "l", "e", " ", "P", "y", "t",
    "h", "o", "n", " ", "s", "c", "r", "i", "p", "t", ".", " ", "D", "o",
    " ", "n", "o", "t", " ", "i", "n", "c", "l", "u", "d", "e", " ", "a",
    "n", "y", " ", "t", "e", "x", "t", ",", " ", "e", "x", "p", "l", "a",
    "n", "a", "t", "i", "o", "n", "s", ",", " ", "o", "r", " ", "m", "a",
    "r", "k", "d", "o", "w", "n", " ", "o", "u", "t", "s", "i", "d", "e",
    " ", "o", "f", " ", "t", "h", "e", " ", "P", "y", "t", "h", "o", "n",
    " ", "c", "o", "d", "e", ".", "\n", "2", ".", " ", " ", "*", "*", "C",
    "l", "a", "s", "s", " ", "D", "e", "f", "i", "n", "i", "t", "i", "o",
    "n", ":", "*", "*", " ", "T", "h", "e", " ", "s", "c", "r", "i", "p",
    "t", " ", "m", "u", "s", "t", " ", "c", "o", "n", "t", "a", "i", "n",
    " ", "e", "x", "a", "c", "t", "l", "y", " ", "o", "n", "e", " ", "c",
    "l", "a", "s", "s", ",", " ", "n", "a", "m", "e", "d", " ", Backtick>>

PromptMid ==
  <<Backtick, ",", " ", "w", "h", "i", "c", "h", " ", "M", "U", "S", "T", " ",
    "i", "n", "h", "e", "r", "i", "t", " ", "f", "r", "o", "m", " ", Backtick,
    "V", "o", "i", "c", "e", "o", "v", "e", "r", "S", "c", "e", "n", "e",
    Backtick, ".", "\n", "3", ".", " ", " ", "*", "*", "I", "m", "p", "o", "r",
    "t", "s", ":", "*", "*", " ", "T", "h", "e", " ", "s", "c", "r", "i",
    "p", "t", " ", "M", "U", "S", "T", " ", "b", "e", "g", "i", "n", " ",
    "w", "i", "t", "h", " ", "t", "h", "e", "s", "e", " ", "e", "x", "a",
    "c", "t", " ", "i", "m", "p", "o", "r", "t", "s", ":", "\n", " ", " ",
    " ", " ", Backtick, Backtick, Backtick, "p", "y", "t", "h", "o", "n", "\n", " ", " ",
    " ", " ", "f", "r", "o", "m", " ", "m", "a", "n", "i", "m", " ", "i",
    "m", "p", "o", "r", "t", " ", "*", "\n", " ", " ", " ", " ", "f", "r",
    "o", "m", " ", "m", "a", "n", "i", "m", "_", "v", "o", "i", "c", "e",
    "o", "v", "e", "r", " ", "i", "m", "p", "o", "r", "t", " ", "V", "o",
    "i", "c", "e", "o", "v", "e", "r", "S", "c", "e", "n", "e", "\n", " ",
    " ", " ", " ", "f", "r", "o", "m", " ", "m", "a", "n", "i", "m", "_",
    "v", "o", "i", "c", "e", "o", "v", "e", "r", ".", "s", "e", "r", "v",
    "i", "c", "e", "s", ".", "g", "t", "t", "s", " ", "i", "m", "p", "o",
    "r", "t", " ", "G", "T", "T", "S", "S", "e", "r", "v", "i", "c", "e",
    "\n", " ", " ", " ", " ", Backtick, Backtick, Backtick, "\n", "4", ".", " ", " ", "*",
    "*", "S", "p", "e", "e", "c", "h", " ", "S", "e", "r", "v", "i", "c",
    "e", ":", "*", "*", " ", "T", "h", "e", " ", Backtick, "c", "o", "n", "s",
    "t", "r", "u", "c", "t", Backtick, " ", "m", "e", "t", "h", "o", "d", " ",
    "M", "U", "S", "T", " ", "b", "e", "g", "i", "n", " ", "b", "y", " ",
    "i", "n", "i", "t", "i", "a", "l", "i", "z", "i", "n", "g", " ", "t",
    "h", "e", " ", "s", "p", "e", "e", "c", "h", " ", "s", "e", "r", "v",
    "i", "c", "e", ":", " ", Backtick, "s", "e", "l", "f", ".", "s", "e", "t",
    "_", "s", "p", "e", "e", "c", "h", "_", "s", "e", "r", "v", "i", "c",
    "e", "(", "G", "T", "T", "S", "S", "e", "r", "v", "i", "c", "e", "(",
    "l", "a", "n", "g", "=", "\"", "e", "n", "\"", ")", ")", Backtick, ".", "\n",
    "5", ".", " ", " ", "*", "*", "C", "o", "m", "p", "l", "e", "t", "e",
    "n", "e", "s", "s", ":", "*", "*", " ", "T", "h", "e", " ", "s", "c",
    "r", "i", "p", "t", " ", "m", "u", "s", "t", " ", "b", "e", " ", "f",
    "u", "l", "l", "y", " ", "f", "u", "n", "c", "t", "i", "o", "n", "a",
    "l", ".", " ", "D", "o", " ", "n", "o", "t", " ", "u", "s", "e", " ",
    "p", "l", "a", "c", "e", "h", "o", "l", "d", "e", "r", "s", " ", "o",
    "r", " ", "c", "o", "m", "m", "e", "n", "t", "s", " ", "l", "i", "k",
    "e", " ", Backtick, "#", " ", "A", "d", "d", " ", "a", "n", "i", "m", "a",
    "t", "i", "o", "n", " ", "h", "e", "r", "e", Backtick, ".", "\n", "\n", "#",
    "#", "#", " ", "V", "i", "s", "u", "a", "l", " ", "&", " ", "A", "n",
    "i", "m", "a", "t", "i", "o", "n", " ", "S", "t", "a", "n", "d", "a",
    "r", "d", "s", "\n", "\n", "1", ".", " ", " ", "*", "*", "A", "e", "s",
    "t", "h", "e", "t", "i", "c", "s", ":", "*", "*", " ", "U", "s", "e",
    " ", "a", " ", "c", "l", "e", "a", "n", ",", " ", "m", "o", "d", "e",
    "r", "n", " ", "a", "e", "s", "t", "h", "e", "t", "i", "c", ".", " ",
    "S", "e", "t", " ", "t", "h", "e", " ", "b", "a", "c", "k", "g", "r",
    "o", "u", "n", "d", " ", "t", "o", " ", "a", " ", "d", "a", "r", "k",
    " ", "c", "o", "l", "o", "r", ",", " ", "l", "i", "k", "e", " ", Backtick,
    "s", "e", "l", "f", ".", "c", "a", "m", "e", "r", "a", ".", "b", "a",
    "c", "k", "g", "r", "o", "u", "n", "d", "_", "c", "o", "l", "o", "r",
    " ", "=", " ", "\"", "#", "2", "d", "3", "c", "4", "c", "\"", Backtick, ".",
    "\n", "2", ".", " ", " ", "*", "*", "T", "y", "p", "o", "g", "r", "a",
    "p", "h", "y", ":", "*", "*", " ", "U", "s", "e", " ", Backtick, "M", "a",
    "t", "h", "T", "e", "x", Backtick, " ", "f", "o", "r", " ", "a", "l", "l",
    " ", "m", "a", "t", "h", "e", "m", "a", "t", "i", "c", "a", "l", " ",
    "e", "x", "p", "r", "e", "s", "s", "i", "o", "n", "s", " ", "t", "o",
    " ", "e", "n", "s", "u", "r", "e", " ", "h", "i", "g", "h", "-", "q",
    "u", "a", "l", "i", "t", "y", " ", "r", "e", "n", "d", "e", "r", "i",
    "n", "g", ".", " ", "U", "s", "e", " ", Backtick, "T", "e", "x", "t", Backtick,
    " ", "f", "o", "r", " ", "a", "l", "l", " ", "o", "t", "h", "e", "r",
    " ", "l", "a", "b", "e", "l", "s", " ", "a", "n", "d", " ", "t", "i",
    "t", "l", "e", "s", ".", "\n", "3", ".", " ", " ", "*", "*", "C", "l",
    "a", "r", "i", "t", "y", " ", "&", " ", "L", "a", "y", "o", "u", "t",
    ":", "*", "*", " ", "K", "e", "e", "p", " ", "t", "h", "e", " ", "s",
    "c", "r", "e", "e", "n", " ", "u", "n", "c", "l", "u", "t", "t", "e",
    "r", "e", "d", ".", " ", "E", "l", "e", "m", "e", "n", "t", "s", " ",
    "m", "u", "s", "t", " ", "n", "e", "v", "e", "r", " ", "o", "v", "e",
    "r", "l", "a", "p", ".", " ", "P", "o", "s", "i", "t", "i", "o", "n",
    " ", "i", "t", "e", "m", "s", " ", "t", "h", "o", "u", "g", "h", "t",
    "f", "u", "l", "l", "y", " ", "u", "s", "i", "n", "g", " ", Backtick, ".",
    "t", "o", "_", "e", "d", "g", "e", "(", ")", Backtick, ",", " ", Backtick, ".",
    "s", "h", "i", "f", "t", "(", ")", Backtick, ",", " ", "a", "n", "d", " ",
    Backtick, ".", "n", "e", "x", "t", "_", "t", "o", "(", ")", Backtick, ".", "\n",
    "4", ".", " ", " ", "*", "*", "C", "l", "e", "a", "n", " ", "T", "r",
    "a", "n", "s", "i", "t", "i", "o", "n", "s", ":", "*", "*", " ", "F",
    "a", "d", "e", " ", "o", "u", "t", " ", "o", "b", "j", "e", "c", "t",
    "s", " ", "t", "h", "a", "t", " ", "a", "r", "e", " ", "n", "o", " ",
    "l", "o", "n", "g", "e", "r", " ", "n", "e", "e", "d", "e", "d", " ",
    "u", "s", "i", "n", "g", " ", Backtick, "s", "e", "l", "f", ".", "p", "l",
    "a", "y", "(", "F", "a", "d", "e", "O", "u", "t", "(", "o", "b", "j",
    "e", "c", "t", ")", ")", Backtick, ".", " ", "U", "s", "e", " ", Backtick, "T",
    "r", "a", "n", "s", "f", "o", "r", "m", Backtick, " ", "o", "r", " ", Backtick,
    "R", "e", "p", "l", "a", "c", "e", "m", "e", "n", "t", "T", "r", "a",
    "n", "s", "f", "o", "r", "m", Backtick, " ", "t", "o", " ", "s", "m", "o",
    "o", "t", "h", "l", "y", " ", "e", "v", "o", "l", "v", "e", " ", "f",
    "r", "o", "m", " ", "o", "n", "e", " ", "c", "o", "n", "c", "e", "p",
    "t", " ", "t", "o", " ", "t", "h", "e", " ", "n", "e", "x", "t", ".",
    "\n", "5", ".", " ", " ", "*", "*", "R", "e", "n", "d", "e", "r", "e",
    "r", " ", "A", "g", "n", "o", "s", "t", "i", "c", ":", "*", "*", " ",
    "W", "r", "i", "t", "e", " ", "s", "i", "m", "p", "l", "e", ",", " ",
    "r", "o", "b", "u", "s", "t", " ", "a", "n", "i", "m", "a", "t", "i",
    "o", "n", " ", "c", "o", "d", "e", " ", "t", "h", "a", "t", " ", "i",
    "s", " ", "c", "o", "m", "p", "a", "t", "i", "b", "l", "e", " ", "w",
    "i", "t", "h", " ", "d", "i", "f", "f", "e", "r", "e", "n", "t", " ",
    "M", "a", "n", "i", "m", " ", "b", "a", "c", "k", "e", "n", "d", "s",
    ".", " ", "A", "v", "o", "i", "d", " ", "o", "v", "e", "r", "l", "y",
    " ", "c", "o", "m", "p", "l", "e", "x", " ", "o", "r", " ", "e", "x",
    "p", "e", "r", "i", "m", "e", "n", "t", "a", "l", " ", "f", "e", "a",
    "t", "u", "r", "e", "s", ".", "\n", "\n", "#", "#", "#", " ", "N", "a",
    "r", "r", "a", "t", "i", "o", "n", " ", "&", " ", "P", "a", "c", "i",
    "n", "g", " ", "(", "C", "R", "I", "T", "I", "C", "A", "L", " ", "F",
    "O", "R", " ", "S", "T", "A", "B", "I", "L", "I", "T", "Y", ")", "\n",
    "\n", "1", ".", " ", " ", "*", "*", "V", "o", "i", "c", "e", "o", "v",
    "e", "r", " ", "B", "l", "o", "c", "k", "s", ":", "*", "*", " ", "A",
    "L", "L", " ", "n", "a", "r", "r", "a", "t", "i", "o", "n", " ", "a",
    "n", "d", " ", "s", "y", "n", "c", "h", "r", "o", "n", "i", "z", "e",
    "d", " ", "a", "n", "i", "m", "a", "t", "i", "o", "n", "s", " ", "M",
    "U", "S", "T", " ", "b", "e", " ", "i", "n", "s", "i", "d", "e", " ",
    "a", " ", Backtick, "w", "i", "t", "h", " ", "s", "e", "l", "f", ".", "v",
    "o", "i", "c", "e", "o", "v", "e", "r", "(", "t", "e", "x", "t", "=",
    "\"", ".", ".", ".", "\"", ")", " ", "a", "s", " ", "t", "r", "a", "c",
    "k", "e", "r", ":", Backtick, " ", "b", "l", "o", "c", "k", ".", "\n", "2",
    ".", " ", " ", "*", "*", "N", "a", "r", "r", "a", "t", "i", "o", "n",
    " ", "G", "r", "o", "u", "p", "i", "n", "g", ":", "*", "*", " ", "T",
    "o", " ", "a", "v", "o", "i", "d", " ", "n", "e", "t", "w", "o", "r",
    "k", " ", "e", "r", "r", "o", "r", "s", " ", "f", "r", "o", "m", " ",
    "t", "h", "e", " ", Backtick, "g", "T", "T", "S", Backtick, " ", "s", "e", "r",
    "v", "i", "c", "e", ",", " ", "y", "o", "u", " ", "M", "U", "S", "T",
    " ", "g", "r", "o", "u", "p", " ", "r", "e", "l", "a", "t", "e", "d",
    " ", "s", "e", "n", "t", "e", "n", "c", "e", "s", " ", "i", "n", "t",
    "o", " ", "l", "a", "r", "g", "e", "r", ",", " ", "p", "a", "r", "a",
    "g", "r", "a", "p", "h", "-", "s", "t", "y", "l", "e", " ", Backtick, "t",
    "e", "x", "t", Backtick, " ", "s", "t", "r", "i", "n", "g", "s", ".", " ",
    "*", "*", "D", "o", " ", "n", "o", "t", " ", "c", "r", "e", "a", "t",
    "e", " ", "a", " ", "n", "e", "w", " ", "v", "o", "i", "c", "e", "o",
    "v", "e", "r", " ", "b", "l", "o", "c", "k", " ", "f", "o", "r", " ",
    "e", "v", "e", "r", "y", " ", "s", "i", "n", "g", "l", "e", " ", "s",
    "e", "n", "t", "e", "n", "c", "e", ".", "*", "*", " ", "T", "h", "i",
    "s", " ", "i", "s", " ", "t", "h", "e", " ", "m", "o", "s", "t", " ",
    "c", "o", "m", "m", "o", "n", " ", "p", "o", "i", "n", "t", " ", "o",
    "f", " ", "f", "a", "i", "l", "u", "r", "e", ".", "\n", "3", ".", " ",
    " ", "*", "*", "A", "n", "i", "m", "a", "t", "i", "o", "n", " ", "T",
    "i", "m", "i", "n", "g", ":", "*", "*", " ", "U", "s", "e", " ", Backtick,
    "r", "u", "n", "_", "t", "i", "m", "e", "=", "t", "r", "a", "c", "k",
    "e", "r", ".", "d", "u", "r", "a", "t", "i", "o", "n", Backtick, " ", "o",
    "r", " ", Backtick, "r", "u", "n", "_", "t", "i", "m", "e", "=", "t", "r",
    "a", "c", "k", "e", "r", ".", "g", "e", "t", "_", "r", "e", "m", "a",
    "i", "n", "i", "n", "g", "_", "d", "u", "r", "a", "t", "i", "o", "n",
    "(", ")", Backtick, " ", "w", "i", "t", "h", "i", "n", " ", Backtick, "s", "e",
    "l", "f", ".", "p", "l", "a", "y", "(", ")", Backtick, " ", "c", "a", "l",
    "l", "s", " ", "i", "n", "s", "i", "d", "e", " ", "a", " ", "v", "o",
    "i", "c", "e", "o", "v", "e", "r", " ", "b", "l", "o", "c", "k", " ",
    "t", "o", " ", "e", "n", "s", "u", "r", "e", " ", "a", "n", "i", "m",
    "a", "t", "i", "o", "n", "s", " ", "a", "r", "e", " ", "p", "e", "r",
    "f", "e", "c", "t", "l", "y", " ", "s", "y", "n", "c", "h", "r", "o",
    "n", "i", "z", "e", "d", " ", "w", "i", "t", "h", " ", "t", "h", "e",
    " ", "n", "a", "r", "r", "a", "t", "i", "o", "n", ".", "\n", "\n", "*",
    "*", "E", "x", "a", "m", "p", "l", "e", " ", "o", "f", " ", "G", "o",
    "o", "d", " ", "S", "t", "r", "u", "c", "t", "u", "r", "e", ":", "*",
    "*", "\n", Backtick, Backtick, Backtick, "p", "y", "t", "h", "o", "n", "\n", "f", "r",
    "o", "m", " ", "m", "a", "n", "i", "m", " ", "i", "m", "p", "o", "r",
    "t", " ", "*", "\n", "f", "r", "o", "m", " ", "m", "a", "n", "i", "m",
    "_", "v", "o", "i", "c", "e", "o", "v", "e", "r", " ", "i", "m", "p",
    "o", "r", "t", " ", "V", "o", "i", "c", "e", "o", "v", "e", "r", "S",
    "c", "e", "n", "e", "\n", "f", "r", "o", "m", " ", "m", "a", "n", "i",
    "m", "_", "v", "o", "i", "c", "e", "o", "v", "e", "r", ".", "s", "e",
    "r", "v", "i", "c", "e", "s", ".", "g", "t", "t", "s", " ", "i", "m",
    "p", "o", "r", "t", " ", "G", "T", "T", "S", "S", "e", "r", "v", "i",
    "c", "e", "\n", "\n", "c", "l", "a", "s", "s", " ">>

PromptTail ==
  <<"(", "V", "o", "i", "c", "e", "o", "v", "e", "r", "S", "c", "e", "n",
    "e", ")", ":", "\n", " ", " ", " ", " ", "d", "e", "f", " ", "c", "o",
    "n", "s", "t", "r", "u", "c", "t", "(", "s", "e", "l", "f", ")", ":",
    "\n", " ", " ", " ", " ", " ", " ", " ", " ", "s", "e", "l", "f", ".",
    "s", "e", "t", "_", "s", "p", "e", "e", "c", "h", "_", "s", "e", "r",
    "v", "i", "c", "e", "(", "G", "T", "T", "S", "S", "e", "r", "v", "i",
    "c", "e", "(", "l", "a", "n", "g", "=", "\"", "e", "n", "\"", ")", ")",
    "\n", " ", " ", " ", " ", " ", " ", " ", " ", "s", "e", "l", "f", ".",
    "c", "a", "m", "e", "r", "a", ".", "b", "a", "c", "k", "g", "r", "o",
    "u", "n", "d", "_", "c", "o", "l", "o", "r", " ", "=", " ", "\"", "#",
    "2", "d", "3", "c", "4", "c", "\"", "\n", "\n", " ", " ", " ", " ", " ",
    " ", " ", " ", "#", " ", "T", "h", "e", " ", "H", "o", "o", "k", ":",
    " ", "C", "o", "m", "b", "i", "n", "e", " ", "n", "a", "r", "r", "a",
    "t", "i", "o", "n", " ", "i", "n", "t", "o", " ", "a", " ", "s", "i",
    "n", "g", "l", "e", " ", "b", "l", "o", "c", "k", ".", "\n", " ", " ",
    " ", " ", " ", " ", " ", " ", "h", "o", "o", "k", "_", "t", "e", "x",
    "t", " ", "=", " ", "\"", "H", "a", "v", "e", " ", "y", "o", "u", " ",
    "e", "v", "e", "r", " ", "w", "o", "n", "d", "e", "r", "e", "d", " ",
    "h", "o", "w", " ", "w", "e", " ", "c", "a", "n", " ", "d", "e", "s",
    "c", "r", "i", "b", "e", " ", "t", "h", "e", " ", "b", "e", "a", "u",
    "t", "i", "f", "u", "l", " ", "s", "y", "m", "m", "e", "t", "r", "y",
    " ", "o", "f", " ", "a", " ", "c", "i", "r", "c", "l", "e", " ", "u",
    "s", "i", "n", "g", " ", "e", "q", "u", "a", "t", "i", "o", "n", "s",
    "?", " ", "L", "e", "t", "'", "s", " ", "e", "x", "p", "l", "o", "r",
    "e", " ", "t", "h", "e", " ", "f", "u", "n", "d", "a", "m", "e", "n",
    "t", "a", "l", " ", "f", "o", "r", "m", "u", "l", "a", " ", "t", "h",
    "a", "t", " ", "d", "e", "f", "i", "n", "e", "s", " ", "t", "h", "i",
    "s", " ", "p", "e", "r", "f", "e", "c", "t", " ", "s", "h", "a", "p",
    "e", ".", "\"", "\n", " ", " ", " ", " ", " ", " ", " ", " ", "t", "i",
    "t", "l", "e", " ", "=", " ", "T", "e", "x", "t", "(", "\"", "T", "h",
    "e", " ", "E", "q", "u", "a", "t", "i", "o", "n", " ", "o", "f", " ",
    "a", " ", "C", "i", "r", "c", "l", "e", "\"", ",", " ", "f", "o", "n",
    "t", "_", "s", "i", "z", "e", "=", "4", "8", ")", "\n", " ", " ", " ",
    " ", " ", " ", " ", " ", "w", "i", "t", "h", " ", "s", "e", "l", "f",
    ".", "v", "o", "i", "c", "e", "o", "v", "e", "r", "(", "t", "e", "x",
    "t", "=", "h", "o", "o", "k", "_", "t", "e", "x", "t", ")", " ", "a",
    "s", " ", "t", "r", "a", "c", "k", "e", "r", ":", "\n", " ", " ", " ",
    " ", " ", " ", " ", " ", " ", " ", " ", " ", "s", "e", "l", "f", ".",
    "p", "l", "a", "y", "(", "W", "r", "i", "t", "e", "(", "t", "i", "t",
    "l", "e", ")", ",", " ", "r", "u", "n", "_", "t", "i", "m", "e", "=",
    "t", "r", "a", "c", "k", "e", "r", ".", "d", "u", "r", "a", "t", "i",
    "o", "n", ")", "\n", " ", " ", " ", " ", " ", " ", " ", " ", "s", "e",
    "l", "f", ".", "p", "l", "a", "y", "(", "F", "a", "d", "e", "O", "u",
    "t", "(", "t", "i", "t", "l", "e", ")", ")", "\n", "\n", " ", " ", " ",
    " ", " ", " ", " ", " ", "#", " ", "T", "h", "e", " ", "C", "o", "r",
    "e", " ", "I", "d", "e", "a", "\n", " ", " ", " ", " ", " ", " ", " ",
    " ", "c", "o", "r", "e", "_", "i", "d", "e", "a", "_", "t", "e", "x",
    "t", " ", "=", " ", "\"", "T", "h", "e", " ", "e", "q", "u", "a", "t",
    "i", "o", "n", " ", "o", "f", " ", "a", " ", "c", "i", "r", "c", "l",
    "e", " ", "w", "i", "t", "h", " ", "i", "t", "s", " ", "c", "e", "n",
    "t", "e", "r", " ", "a", "t", " ", "t", "h", "e", " ", "o", "r", "i",
    "g", "i", "n", " ", "i", "s", " ", "g", "i", "v", "e", "n", " ", "b",
    "y", " ", "x", "-", "s", "q", "u", "a", "r", "e", "d", " ", "p", "l",
    "u", "s", " ", "y", "-", "s", "q", "u", "a", "r", "e", "d", " ", "e",
    "q", "u", "a", "l", "s", " ", "r", "-", "s", "q", "u", "a", "r", "e",
    "d", ".", "\"", "\n", " ", " ", " ", " ", " ", " ", " ", " ", "f", "o",
    "r", "m", "u", "l", "a", " ", "=", " ", "M", "a", "t", "h", "T", "e",
    "x", "(", "\"", "x", "^", "2", " ", "+", " ", "y", "^", "2", " ", "=",
    " ", "r", "^", "2", "\"", ")", ".", "s", "c", "a", "l", "e", "(", "1",
    ".", "5", ")", "\n", " ", " ", " ", " ", " ", " ", " ", " ", "w", "i",
    "t", "h", " ", "s", "e", "l", "f", ".", "v", "o", "i", "c", "e", "o",
    "v", "e", "r", "(", "t", "e", "x", "t", "=", "c", "o", "r", "e", "_",
    "i", "d", "e", "a", "_", "t", "e", "x", "t", ")", " ", "a", "s", " ",
    "t", "r", "a", "c", "k", "e", "r", ":", "\n", " ", " ", " ", " ", " ",
    " ", " ", " ", " ", " ", " ", " ", "s", "e", "l", "f", ".", "p", "l",
    "a", "y", "(", "W", "r", "i", "t", "e", "(", "f", "o", "r", "m", "u",
    "l", "a", ")", ",", " ", "r", "u", "n", "_", "t", "i", "m", "e", "=",
    "t", "r", "a", "c", "k", "e", "r", ".", "d", "u", "r", "a", "t", "i",
    "o", "n", ")", "\n", " ", " ", " ", " ", " ", " ", " ", " ", "\n", " ",
    " ", " ", " ", " ", " ", " ", " ", "s", "e", "l", "f", ".", "w", "a",
    "i", "t", "(", "1", ")", "\n", " ", " ", " ", " ", " ", " ", " ", " ",
    "s", "e", "l", "f", ".", "p", "l", "a", "y", "(", "F", "a", "d", "e",
    "O", "u", "t", "(", "f", "o", "r", "m", "u", "l", "a", ")", ")", "\n",
    " ", " ", " ", " ", " ", " ", " ", " ", "s", "e", "l", "f", ".", "w",
    "a", "i", "t", "(", "0", ".", "5", ")", "\n", Backtick, Backtick, Backtick, "\n">>

RequestSeparator ==
  <<"\n", "\n", "*", "*", "U", "s", "e", "r", " ", "R", "e", "q", "u", "e",
    "s", "t", ":", "*", "*", "\n">>

UserPromptHead ==
  <<"G", "e", "n", "e", "r", "a", "t", "e", " ", "a", " ", "M", "a", "n",
    "i", "m", " ", "s", "c", "r", "i", "p", "t", " ", "t", "h", "a", "t",
    " ", "e", "x", "p", "l", "a", "i", "n", "s", " ", "t", "h", "e", " ",
    "f", "o", "l", "l", "o", "w", "i", "n", "g", " ", "t", "o", "p", "i",
    "c", ":", " ", "'">>

UserPromptTail ==
  <<"'">>

FixPromptHead ==
  <<"\n", "T", "h", "e", " ", "f", "o", "l", "l", "o", "w", "i", "n", "g",
    " ", "M", "a", "n", "i", "m", " ", "s", "c", "r", "i", "p", "t", " ",
    "f", "a", "i", "l", "e", "d", " ", "t", "o", " ", "e", "x", "e", "c",
    "u", "t", "e", ".", "\n", "\n", "*", "*", "B", "r", "o", "k", "e", "n",
    " ", "C", "o", "d", "e", ":", "*", "*", "\n", Backtick, Backtick, Backtick, "p", "y",
    "t", "h", "o", "n", "\n">>

FixPromptMid ==
  <<"\n", Backtick, Backtick, Backtick, "\n", "\n", "*", "*", "E", "r", "r", "o", "r", " ",
    "M", "e", "s", "s", "a", "g", "e", ":", "*", "*", "\n", Backtick, Backtick, Backtick,
    "\n">>

FixPromptTail ==
  <<"\n", Backtick, Backtick, Backtick, "\n", "\n", "A", "n", "a", "l", "y", "z", "e", " ",
    "t", "h", "e", " ", "e", "r", "r", "o", "r", " ", "m", "e", "s", "s",
    "a", "g", "e", " ", "a", "n", "d", " ", "t", "h", "e", " ", "c", "o",
    "d", "e", ",", " ", "t", "h", "e", "n", " ", "p", "r", "o", "v", "i",
    "d", "e", " ", "a", " ", "c", "o", "r", "r", "e", "c", "t", "e", "d",
    ",", " ", "c", "o", "m", "p", "l", "e", "t", "e", ",", " ", "a", "n",
    "d", " ", "r", "u", "n", "n", "a", "b", "l", "e", " ", "v", "e", "r",
    "s", "i", "o", "n", " ", "o", "f", " ", "t", "h", "e", " ", "P", "y",
    "t", "h", "o", "n", " ", "s", "c", "r", "i", "p", "t", ".", "\n", "R",
    "e", "f", "e", "r", " ", "t", "o", " ", "t", "h", "e", " ", "d", "e",
    "t", "a", "i", "l", "e", "d", " ", "s", "y", "s", "t", "e", "m", " ",
    "p", "r", "o", "m", "p", "t", " ", "y", "o", "u", " ", "w", "e", "r",
    "e", " ", "o", "r", "i", "g", "i", "n", "a", "l", "l", "y", " ", "g",
    "i", "v", "e", "n", " ", "t", "o", " ", "e", "n", "s", "u", "r", "e",
    " ", "a", "l", "l", " ", "p", "e", "d", "a", "g", "o", "g", "i", "c",
    "a", "l", ",", " ", "t", "e", "c", "h", "n", "i", "c", "a", "l", ",",
    " ", "a", "n", "d", " ", "v", "i", "s", "u", "a", "l", " ", "s", "t",
    "a", "n", "d", "a", "r", "d", "s", " ", "a", "r", "e", " ", "m", "e",
    "t", ".", "\n", "O", "n", "l", "y", " ", "o", "u", "t", "p", "u", "t",
    " ", "t", "h", "e", " ", "r", "a", "w", " ", "P", "y", "t", "h", "o",
    "n", " ", "c", "o", "d", "e", ",", " ", "w", "i", "t", "h", " ", "n",
    "o", " ", "e", "x", "p", "l", "a", "n", "a", "t", "i", "o", "n", "s",
    " ", "o", "r", " ", "m", "a", "r", "k", "d", "o", "w", "n", ".", "\n">>

(***************************************************************************)
(* Characters and the str methods the program uses.                        *)
(***************************************************************************)

\* The characters str.strip() removes when called without an argument
\* (src/llm_handler.py:113, 119, 148, 155), as far as the texts of this
\* model use them; Python also counts \v, the separators 0x1c-0x1f and the
\* non-ASCII spaces.
Whitespace == {" ", "\t", "\n", "\r", "\f"}

RECURSIVE LStrip(_)
LStrip(s) ==
  IF s # <<>> /\ Head(s) \in Whitespace THEN LStrip(Tail(s)) ELSE s

RECURSIVE RStrip(_)
RStrip(s) ==
  IF s # <<>> /\ s[Len(s)] \in Whitespace
    THEN RStrip(SubSeq(s, 1, Len(s) - 1))
    ELSE s

\* s.strip()
Strip(s) == RStrip(LStrip(s))

\* s.startswith(p)
StartsWith(s, p) == Len(s) >= Len(p) /\ SubSeq(s, 1, Len(p)) = p

\* s.endswith(p)
EndsWith(s, p) ==
  Len(s) >= Len(p) /\ SubSeq(s, Len(s) - Len(p) + 1, Len(s)) = p

\* s[n:] for n >= 0
SliceFrom(s, n) == SubSeq(s, n + 1, Len(s))

\* s[:-n] for n > 0
SliceTo(s, n) == SubSeq(s, 1, Len(s) - n)

\* needle in haystack: needle occurs as a contiguous run of characters
Contains(haystack, needle) ==
  \E i \in 0..(Len(haystack) - Len(needle)) :
    SubSeq(haystack, i + 1, i + Len(needle)) = needle

\* The marker literals of the clean-up code: "```python" and "```".
FencePy == <<Backtick, Backtick, Backtick, "p", "y", "t", "h", "o", "n">>

Fence == <<Backtick, Backtick, Backtick>>

(***************************************************************************)
(* The clean-up of a response text.  The code is written out twice, once   *)
(* in generate_content and once in fix_code; each copy is modelled by its  *)
(* own operator.                                                           *)
(***************************************************************************)

(***************************************************************************)
(* Faulty variants of the clean-up, used to show that the properties below *)
(* tell the code from a near miss.                                         *)
(***************************************************************************)

\* "return code" in place of "return code.strip()"
CleanCodeNoFinalStrip(text) ==
  LET code0 == Strip(text)
      code1 == IF StartsWith(code0, FencePy) THEN SliceFrom(code0, 9) ELSE code0
      code2 == IF EndsWith(code1, Fence) THEN SliceTo(code1, 3) ELSE code1
  IN  code2

\* "code = code[:-3]" outside its if
CleanCodeUnguardedSuffix(text) ==
  LET code0 == Strip(text)
      code1 == IF StartsWith(code0, FencePy) THEN SliceFrom(code0, 9) ELSE code0
      code2 == SliceTo(code1, 3)
  IN  Strip(code2)

\* "elif code.endswith" in place of the second "if"
CleanCodeElif(text) ==
  LET code0 == Strip(text)
      code1 == IF StartsWith(code0, FencePy)
                 THEN SliceFrom(code0, 9)
                 ELSE IF EndsWith(code0, Fence) THEN SliceTo(code0, 3) ELSE code0
  IN  Strip(code1)

\* startswith("```") and [3:] in place of startswith("```python") and [9:]
CleanFixedCodeAnyFence(text) ==
  LET fixed0 == Strip(text)
      fixed1 == IF StartsWith(fixed0, Fence) THEN SliceFrom(fixed0, 3) ELSE fixed0
      fixed2 == IF EndsWith(fixed1, Fence) THEN SliceTo(fixed1, 3) ELSE fixed1
  IN  Strip(fixed2)

\* generate_content, lines 113-119
CleanCode(text) ==
  LET code0 == Strip(text)
      code1 == IF StartsWith(code0, FencePy) THEN SliceFrom(code0, 9) ELSE code0
      code2 == IF EndsWith(code1, Fence) THEN SliceTo(code1, 3) ELSE code1
  IN  Strip(code2)

\* fix_code, lines 148-155
CleanFixedCode(text) ==
  LET fixed0 == Strip(text)
      fixed1 == IF StartsWith(fixed0, FencePy) THEN SliceFrom(fixed0, 9) ELSE fixed0
      fixed2 == IF EndsWith(fixed1, Fence) THEN SliceTo(fixed1, 3) ELSE fixed1
  IN  Strip(fixed2)

(***************************************************************************)
(* Prompt construction.                                                    *)
(***************************************************************************)

\* Faulty variants of the prompt construction: a field left as literal text.
ClassNameField == <<"{", "c", "l", "a", "s", "s", "_", "n", "a", "m", "e", "}">>

TopicField == <<"{", "t", "o", "p", "i", "c", "}">>

ErrorMessageField ==
  <<"{", "e", "r", "r", "o", "r", "_", "m", "e", "s", "s", "a", "g", "e", "}">>

SystemPromptOneSite(class_name) ==
  PromptHead \o class_name \o PromptMid \o ClassNameField \o PromptTail

UserPromptNoTopic(topic) == UserPromptHead \o TopicField \o UserPromptTail

FixPromptNoError(broken_code, error_message) ==
  FixPromptHead \o broken_code \o FixPromptMid \o ErrorMessageField \o FixPromptTail

\* _get_system_prompt(class_name): the f-string with both fields filled in
SystemPromptText(class_name) ==
  PromptHead \o class_name \o PromptMid \o class_name \o PromptTail

\* user_prompt of generate_content
UserPrompt(topic) == UserPromptHead \o topic \o UserPromptTail

\* contents= of generate_content's request
GenerateContents(topic, class_name) ==
  SystemPromptText(class_name) \o RequestSeparator \o UserPrompt(topic)

\* prompt of fix_code
FixPrompt(broken_code, error_message) ==
  FixPromptHead \o broken_code \o FixPromptMid \o error_message \o FixPromptTail

\* model= of generate_content's request
GenerateModel(h) == h.model_name

\* model= of fix_code's request
FixModel(h) == h.model_name

(***************************************************************************)
(* Output lines.                                                           *)
(***************************************************************************)

WarningLine ==
  "Warning: GOOGLE_API_KEY not found in environment. LLM features may fail."

AttemptLine == "\n--- Attempting to fix the Manim script with AI ---"

FixedLine == "--- AI has provided a potential fix ---"

\* The literal assigned to GOOGLE_API_KEY and to self.model_name.
KeyLiteral == ""

ModelNameLiteral == "gemini-flash-latest"

(***************************************************************************)
(* Inputs.                                                                 *)
(***************************************************************************)

Circles == <<"c", "i", "r", "c", "l", "e", "s">>

CircleScene == <<"C", "i", "r", "c", "l", "e", "S", "c", "e", "n", "e">>

XEq1 == <<"x", "=", "1">>

Print1 == <<"p", "r", "i", "n", "t", "(", "1", ")">>

DivByZero == <<"x", "=", "1", "/", "0">>

ZeroDivisionError ==
  <<"Z", "e", "r", "o", "D", "i", "v", "i", "s", "i", "o", "n",
    "E", "r", "r", "o", "r">>

Topics == {Circles, <<"p", "i">>}

ClassNames == {CircleScene, <<"S", "2">>}

BrokenCodes == {DivByZero, <<"f", "(", ")", "\n">>}

ErrorMessages == {ZeroDivisionError, <<"N", "a", "m", "e", "E", "r", "r", "o", "r", ":", " ", "f">>}

\* What the process environment holds for GOOGLE_API_KEY, and what the .env
\* file load_dotenv() reads holds for it; "" stands for "not set".
EnvValues == {"", "key-from-env"}

DotenvValues == {"", "key-from-dotenv"}

\* What client.models.generate_content can do: return a response whose
\* .text is the given text, or raise.  The service (or the stub standing in
\* for it) is the environment: either answer is possible on every call,
\* whatever key the client holds.
TextAnswer(t) == [kind |-> "text", text |-> t, error |-> ""]

ErrorAnswer(e) == [kind |-> "error", text |-> <<>>, error |-> e]

NoAnswer == [kind |-> "none", text |-> <<>>, error |-> ""]

RemoteErrors == {"ServerError", "ClientError"}

\* "```python\n" code "\n```"
Fenced(code) == FencePy \o <<"\n">> \o code \o <<"\n">> \o Fence

\* The response texts the remote service answers with in Spec.
Codes == {XEq1, Print1, <<" ", "x", "=", "1", "\n">>, Fence \o XEq1}

RemoteTexts ==
  UNION { { code,
            Fenced(code),
            <<" ", "\n">> \o Fenced(code) \o <<"\n">>,
            Fence \o <<"\n">> \o code \o <<"\n">> \o Fence } : code \in Codes }

RemoteAnswers ==
  {TextAnswer(t) : t \in RemoteTexts} \cup {ErrorAnswer(e) : e \in RemoteErrors}

\* The raw texts the clean-up is swept over in SanitizeSpec:
\* padding, an opening, a body of at most MaxBodyParts parts, a closing, padding.
MaxBodyParts == 2

Pads == {<<>>, <<" ">>, <<"\n">>}

Opens == {<<>>, FencePy, Fence, Fence \o <<"p", "y">>}

Closes == {<<>>, Fence, <<Backtick, Backtick>>}

BodyParts == {XEq1, Print1, <<"\n">>, Fence, FencePy}

RECURSIVE Concat(_)
Concat(parts) ==
  IF parts = <<>> THEN <<>> ELSE Head(parts) \o Concat(Tail(parts))

Bodies ==
  UNION { {Concat(ps) : ps \in [1..k -> BodyParts]} : k \in 0..MaxBodyParts }

RawTexts ==
  { lead \o open \o body \o close \o trail :
      lead \in Pads, open \in Opens, body \in Bodies,
      close \in Closes, trail \in Pads }

(***************************************************************************)
(* State.                                                                  *)
(***************************************************************************)
VARIABLES
  env,             \* GOOGLE_API_KEY in os.environ ("" when not set)
  dotenv,          \* GOOGLE_API_KEY in the .env file ("" when not set)
  phase,           \* "unloaded", "loaded" (module imported), "ready" (handler built)
  GOOGLE_API_KEY,  \* the module global
  loadLog,         \* lines printed while the module was imported
  handler,         \* the LLMHandler: self.client, self.model_name
  last,            \* the most recent method call: arguments, remote answer, outcome
  requests,        \* the remote requests that call issued, in order
  printed,         \* the lines that call printed, in order
  raw,             \* SanitizeSpec: the text under clean-up
  clean,           \* SanitizeSpec: the result of the clean-up
  cleanedBy        \* SanitizeSpec: whose copy of the clean-up produced it

progVars ==
  <<env, dotenv, phase, GOOGLE_API_KEY, loadLog, handler, last, requests, printed>>

sanVars == <<raw, clean, cleanedBy>>

vars ==
  <<env, dotenv, phase, GOOGLE_API_KEY, loadLog, handler, last, requests, printed,
    raw, clean, cleanedBy>>

Unset == "<unset>"

NoHandler == [client |-> [api_key |-> Unset], model_name |-> Unset]

NoCall ==
  [op |-> "none", args |-> <<>>, answer |-> NoAnswer,
   outcome |-> "none", raised |-> "", result |-> <<>>]

Init ==
  /\ env \in EnvValues
  /\ dotenv \in DotenvValues
  /\ phase = "unloaded"
  /\ GOOGLE_API_KEY = Unset
  /\ loadLog = <<>>
  /\ handler = NoHandler
  /\ last = NoCall
  /\ requests = <<>>
  /\ printed = <<>>
  /\ raw = <<>>
  /\ clean = <<>>
  /\ cleanedBy = "none"

(***************************************************************************)
(* Module import, lines 1-11.                                              *)
(***************************************************************************)
LoadModule ==
  /\ phase = "unloaded"
  \* load_dotenv(): a variable the environment lacks is taken from .env
  /\ env' = IF env = "" THEN dotenv ELSE env
  \* GOOGLE_API_KEY = ""
  /\ GOOGLE_API_KEY' = KeyLiteral
  \* if not GOOGLE_API_KEY: print(...)
  /\ loadLog' = IF GOOGLE_API_KEY' = "" THEN <<WarningLine>> ELSE <<>>
  /\ phase' = "loaded"
  /\ UNCHANGED <<dotenv, handler, last, requests, printed>>
  /\ UNCHANGED sanVars

(***************************************************************************)
(* LLMHandler.__init__, lines 15-22.                                       *)
(***************************************************************************)
Construct ==
  /\ phase = "loaded"
  /\ handler' = [client |-> [api_key |-> GOOGLE_API_KEY],
                 model_name |-> ModelNameLiteral]
  /\ phase' = "ready"
  /\ UNCHANGED <<env, dotenv, GOOGLE_API_KEY, loadLog, last, requests, printed>>
  /\ UNCHANGED sanVars

(***************************************************************************)
(* LLMHandler._get_system_prompt, lines 24-99.                             *)
(***************************************************************************)
GetSystemPrompt(class_name) ==
  /\ phase = "ready"
  /\ last' = [op |-> "_get_system_prompt", args |-> <<class_name>>,
              answer |-> NoAnswer, outcome |-> "return", raised |-> "",
              result |-> SystemPromptText(class_name)]
  /\ requests' = <<>>
  /\ printed' = <<>>
  /\ UNCHANGED <<env, dotenv, phase, GOOGLE_API_KEY, loadLog, handler>>
  /\ UNCHANGED sanVars

(***************************************************************************)
(* Faulty variants of the two remote operations.                           *)
(***************************************************************************)

\* generate_content that, when the remote call raises, switches the handler
\* to another model for the calls to come.
GenerateContentFallback(topic, class_name) ==
  /\ phase = "ready"
  /\ \E answer \in RemoteAnswers :
       /\ requests' = <<[model |-> handler.model_name,
                         contents |-> GenerateContents(topic, class_name)]>>
       /\ printed' = <<>>
       /\ handler' = IF answer.kind = "error"
                       THEN [handler EXCEPT !.model_name = "gemini-2.5-flash"]
                       ELSE handler
       /\ last' = IF answer.kind = "error"
                    THEN [op |-> "generate_content", args |-> <<topic, class_name>>,
                          answer |-> answer, outcome |-> "raise",
                          raised |-> answer.error, result |-> <<>>]
                    ELSE [op |-> "generate_content", args |-> <<topic, class_name>>,
                          answer |-> answer, outcome |-> "return",
                          raised |-> "", result |-> CleanCode(answer.text)]
  /\ UNCHANGED <<env, dotenv, phase, GOOGLE_API_KEY, loadLog>>
  /\ UNCHANGED sanVars

\* fix_code that catches the failure of the remote call and hands the broken
\* code back.
FixCodeSwallowing(broken_code, error_message) ==
  /\ phase = "ready"
  /\ \E answer \in RemoteAnswers :
       /\ requests' = <<[model |-> FixModel(handler),
                         contents |-> FixPrompt(broken_code, error_message)]>>
       /\ printed' = IF answer.kind = "error"
                       THEN <<AttemptLine>>
                       ELSE <<AttemptLine, FixedLine>>
       /\ last' = IF answer.kind = "error"
                    THEN [op |-> "fix_code", args |-> <<broken_code, error_message>>,
                          answer |-> answer, outcome |-> "return",
                          raised |-> "", result |-> broken_code]
                    ELSE [op |-> "fix_code", args |-> <<broken_code, error_message>>,
                          answer |-> answer, outcome |-> "return",
                          raised |-> "", result |-> CleanFixedCode(answer.text)]
  /\ UNCHANGED <<env, dotenv, phase, GOOGLE_API_KEY, loadLog, handler>>
  /\ UNCHANGED sanVars

(***************************************************************************)
(* LLMHandler.generate_content, lines 101-119.  The remote call either     *)
(* returns a response or raises; nothing in the method catches.            *)
(***************************************************************************)
GenerateContent(topic, class_name) ==
  /\ phase = "ready"
  /\ \E answer \in RemoteAnswers :
       /\ requests' = <<[model |-> GenerateModel(handler),
                         contents |-> GenerateContents(topic, class_name)]>>
       /\ printed' = <<>>
       /\ last' = IF answer.kind = "error"
                    THEN [op |-> "generate_content", args |-> <<topic, class_name>>,
                          answer |-> answer, outcome |-> "raise",
                          raised |-> answer.error, result |-> <<>>]
                    ELSE [op |-> "generate_content", args |-> <<topic, class_name>>,
                          answer |-> answer, outcome |-> "return",
                          raised |-> "", result |-> CleanCode(answer.text)]
  /\ UNCHANGED <<env, dotenv, phase, GOOGLE_API_KEY, loadLog, handler>>
  /\ UNCHANGED sanVars

(***************************************************************************)
(* LLMHandler.fix_code, lines 121-155.                                     *)
(***************************************************************************)
FixCode(broken_code, error_message) ==
  /\ phase = "ready"
  /\ \E answer \in RemoteAnswers :
       /\ requests' = <<[model |-> FixModel(handler),
                         contents |-> FixPrompt(broken_code, error_message)]>>
       /\ printed' = IF answer.kind = "error"
                       THEN <<AttemptLine>>
                       ELSE <<AttemptLine, FixedLine>>
       /\ last' = IF answer.kind = "error"
                    THEN [op |-> "fix_code", args |-> <<broken_code, error_message>>,
                          answer |-> answer, outcome |-> "raise",
                          raised |-> answer.error, result |-> <<>>]
                    ELSE [op |-> "fix_code", args |-> <<broken_code, error_message>>,
                          answer |-> answer, outcome |-> "return",
                          raised |-> "", result |-> CleanFixedCode(answer.text)]
  /\ UNCHANGED <<env, dotenv, phase, GOOGLE_API_KEY, loadLog, handler>>
  /\ UNCHANGED sanVars

Next ==
  \/ LoadModule
  \/ Construct
  \/ \E class_name \in ClassNames : GetSystemPrompt(class_name)
  \/ \E topic \in Topics, class_name \in ClassNames : GenerateContent(topic, class_name)
  \/ \E broken_code \in BrokenCodes, error_message \in ErrorMessages :
       FixCode(broken_code, error_message)

Spec == Init /\ [][Next]_vars

(***************************************************************************)
(* The clean-up on its own, swept over RawTexts.                           *)
(***************************************************************************)
SanitizeInit ==
  /\ env = ""
  /\ dotenv = ""
  /\ phase = "unloaded"
  /\ GOOGLE_API_KEY = Unset
  /\ loadLog = <<>>
  /\ handler = NoHandler
  /\ last = NoCall
  /\ requests = <<>>
  /\ printed = <<>>
  /\ raw \in RawTexts
  /\ clean = <<>>
  /\ cleanedBy = "none"

CleanGenerated ==
  /\ cleanedBy = "none"
  /\ clean' = CleanCode(raw)
  /\ cleanedBy' = "generate_content"
  /\ UNCHANGED raw
  /\ UNCHANGED progVars

CleanFixed ==
  /\ cleanedBy = "none"
  /\ clean' = CleanFixedCode(raw)
  /\ cleanedBy' = "fix_code"
  /\ UNCHANGED raw
  /\ UNCHANGED progVars

SanitizeNext == CleanGenerated \/ CleanFixed

SanitizeSpec == SanitizeInit /\ [][SanitizeNext]_vars

(***************************************************************************)
(* Properties.                                                             *)
(***************************************************************************)

IsRemoteCall(l) == l.op \in {"generate_content", "fix_code"}

\* A trimmed text of the shape "```python\n" CODE "\n```".
IsFenced(t) ==
  /\ Len(t) >= Len(FencePy) + 1 + 1 + Len(Fence)
  /\ StartsWith(t, FencePy \o <<"\n">>)
  /\ EndsWith(t, <<"\n">> \o Fence)

\* The CODE of such a text.
FencedCode(t) == SubSeq(t, Len(FencePy) + 2, Len(t) - Len(Fence) - 1)

\* C1: when the remote service answers "```python\nCODE\n```", with or
\* without whitespace around it, generate_content and fix_code both return
\* CODE with its leading and trailing whitespace removed; for the answer
\* "```python\nx=1\n```", generate_content("circles", "CircleScene")
\* returns "x=1".
C1_FencedAnswerReturnsCode ==
  /\ ( /\ IsRemoteCall(last)
       /\ last.answer.kind = "text"
       /\ IsFenced(Strip(last.answer.text)) )
     => /\ last.outcome = "return"
        /\ last.result = Strip(FencedCode(Strip(last.answer.text)))
  /\ ( /\ last.op = "generate_content"
       /\ last.args = <<Circles, CircleScene>>
       /\ last.answer = TextAnswer(Fenced(XEq1)) )
     => last.result = XEq1

C1_Witness ==
  /\ last.op = "fix_code"
  /\ last.answer = TextAnswer(<<" ", "\n">> \o Fenced(<<" ", "x", "=", "1", "\n">>) \o <<"\n">>)
  /\ last.result = XEq1

\* C2: when the remote call of generate_content or fix_code raises, the
\* call raises that same failure, returns no script, and has issued exactly
\* one remote request.
C2_RemoteFailurePropagates ==
  (IsRemoteCall(last) /\ last.answer.kind = "error")
    => /\ last.outcome = "raise"
       /\ last.raised = last.answer.error
       /\ last.result = <<>>
       /\ Len(requests) = 1

C2_Witness ==
  /\ last.op = "fix_code"
  /\ last.answer = ErrorAnswer("ServerError")
  /\ last.outcome = "raise"
  /\ last.raised = "ServerError"

\* C3: fix_code issues exactly one request; its prompt contains broken_code
\* and error_message verbatim, and it goes to the model generate_content
\* uses.
C3_FixPromptEmbedsCodeAndError ==
  last.op = "fix_code"
    => /\ Len(requests) = 1
       /\ Contains(requests[1].contents, last.args[1])
       /\ Contains(requests[1].contents, last.args[2])
       /\ requests[1].model = GenerateModel(handler)

C3_Witness ==
  /\ last.op = "fix_code"
  /\ last.args = <<DivByZero, ZeroDivisionError>>
  /\ Len(requests) = 1
  /\ Contains(requests[1].contents, DivByZero)
  /\ Contains(requests[1].contents, ZeroDivisionError)

\* C4: generate_content issues exactly one request, whose text is the
\* system prompt for class_name followed by the user-request line with the
\* topic in it, to the handler's fixed model name; it prints nothing.
C4_GenerateSendsOnePrompt ==
  last.op = "generate_content"
    => /\ Len(requests) = 1
       /\ requests[1].model = handler.model_name
       /\ requests[1].model = ModelNameLiteral
       /\ LET contents == requests[1].contents
              system == SystemPromptText(last.args[2])
              rest == SliceFrom(contents, Len(system))
          IN  /\ StartsWith(contents, system)
              /\ rest = RequestSeparator \o UserPromptHead \o last.args[1] \o UserPromptTail
       /\ printed = <<>>

C4_Witness ==
  /\ last.op = "generate_content"
  /\ last.args = <<Circles, CircleScene>>
  /\ Len(requests) = 1
  /\ Contains(requests[1].contents, Circles)

\* C5: a raw text whose trimmed form neither begins with "```python" nor
\* ends with "```" comes out of either clean-up as its trimmed form.
C5_NoMarkersOnlyTrimmed ==
  ( /\ cleanedBy # "none"
    /\ ~StartsWith(Strip(raw), FencePy)
    /\ ~EndsWith(Strip(raw), Fence) )
    => clean = Strip(raw)

C5_Witness ==
  /\ cleanedBy = "fix_code"
  /\ raw = <<" ">> \o Print1 \o <<"\n">>
  /\ clean = Print1

\* C6: on a text free of a leading "```python" and a trailing "```", the
\* clean-up applied to its own result changes nothing.
C6_CleanIdempotent ==
  ( /\ ~StartsWith(Strip(raw), FencePy)
    /\ ~EndsWith(Strip(raw), Fence) )
    => /\ cleanedBy = "generate_content" => CleanCode(clean) = clean
       /\ cleanedBy = "fix_code" => CleanFixedCode(clean) = clean

C6_Witness ==
  /\ cleanedBy = "generate_content"
  /\ raw = <<"\n">> \o Fence \o <<"p", "y">> \o Print1 \o FencePy \o <<Backtick, Backtick, " ">>
  /\ clean = Strip(raw)
  /\ CleanCode(clean) = clean

\* The system prompt with the class name at its two sites: after "named `"
\* in the class-naming requirement and after "class " in the example.
PromptSitesOK(l) ==
  LET cn == l.args[1]
      p == l.result
      a == Len(PromptHead)
      n == Len(cn)
      b == Len(PromptMid)
  IN  /\ Len(p) = a + n + b + n + Len(PromptTail)
      /\ SubSeq(p, 1, a) = PromptHead
      /\ SubSeq(p, a + 1, a + n) = cn
      /\ SubSeq(p, a + n + 1, a + n + b) = PromptMid
      /\ SubSeq(p, a + n + b + 1, a + n + b + n) = cn
      /\ SubSeq(p, a + n + b + n + 1, Len(p)) = PromptTail
      /\ EndsWith(SubSeq(p, 1, a), <<"n", "a", "m", "e", "d", " ", Backtick>>)
      /\ StartsWith(SubSeq(p, a + n + 1, Len(p)),
                    <<Backtick, ",", " ", "w", "h", "i", "c", "h", " ", "M", "U", "S", "T">>)
      /\ EndsWith(SubSeq(p, 1, a + n + b), <<"\n", "c", "l", "a", "s", "s", " ">>)
      /\ StartsWith(SubSeq(p, a + n + b + n + 1, Len(p)),
                    <<"(", "V", "o", "i", "c", "e", "o", "v", "e", "r", "S", "c", "e", "n", "e", ")", ":">>)

\* C7: _get_system_prompt returns the fixed text with the class name at
\* its two sites, the same text again for the same class name, and neither
\* raises, prints, calls the remote service nor changes the handler.
C7_SystemPromptSubstitutesTwice ==
  [][ last'.op = "_get_system_prompt"
        => /\ PromptSitesOK(last')
           /\ last'.outcome = "return"
           /\ requests' = <<>>
           /\ printed' = <<>>
           /\ handler' = handler
           /\ loadLog' = loadLog
           /\ (last.op = "_get_system_prompt" /\ last.args = last'.args)
                => last'.result = last.result ]_vars

C7_Witness ==
  /\ last.op = "_get_system_prompt"
  /\ last.args = <<CircleScene>>
  /\ PromptSitesOK(last)

\* C8: the credential is read from the process configuration at load: the
\* client is built with that value when it is present, and the warning is
\* printed only when it is absent.
C8_CredentialFromConfiguration ==
  /\ phase # "unloaded"
       => /\ GOOGLE_API_KEY = env
          /\ (env # "") => loadLog = <<>>
          /\ (env = "") => loadLog = <<WarningLine>>
  /\ phase = "ready" => handler.client.api_key = env

\* C9: the clean-up is trim, drop one leading "```python" if present, drop
\* one trailing "```" if present, trim.  Whether each marker is present is
\* read off the trimmed text alone; a second marker behind the first, a
\* leading fence without the python tag, and any marker inside stay.
C9_CleanIsPrefixSuffixStrip ==
  cleanedBy # "none"
    => LET t == Strip(raw)
           a == StartsWith(t, FencePy)
           b == EndsWith(t, Fence)
           i == IF a THEN Len(FencePy) ELSE 0
           j == IF b THEN Len(Fence) ELSE 0
       IN  /\ clean = Strip(SubSeq(t, i + 1, Len(t) - j))
           /\ (StartsWith(t, Fence) /\ ~a /\ b /\ Len(t) >= 2 * Len(Fence))
                => /\ StartsWith(clean, Fence)
                   /\ clean = Strip(SliceTo(t, Len(Fence)))
           /\ (a /\ StartsWith(SliceFrom(t, Len(FencePy)), FencePy))
                => StartsWith(clean, FencePy)
           /\ (b /\ EndsWith(SliceTo(t, Len(Fence)), Fence) /\ Len(t) >= Len(FencePy) + 2 * Len(Fence))
                => EndsWith(clean, Fence)

C9_Witness ==
  /\ cleanedBy = "generate_content"
  /\ raw = Fence \o <<"p", "y">> \o XEq1 \o Fence \o Fence
  /\ clean = Fence \o <<"p", "y">> \o XEq1 \o Fence

\* C10: no call changes the handler, and what a remote call returns or
\* raises follows from the remote answer to that call alone: two calls in a
\* row that get the same answer end the same way.
C10_CallsAreStateless ==
  [][ phase = "ready"
        => /\ handler' = handler
           /\ (IsRemoteCall(last) /\ IsRemoteCall(last') /\ last'.answer = last.answer)
                => /\ last'.outcome = last.outcome
                   /\ last'.raised = last.raised
                   /\ last'.result = last.result ]_vars

C10_Witness ==
  /\ phase = "ready"
  /\ last.op = "fix_code"
  /\ last.outcome = "raise"
  /\ handler = [client |-> [api_key |-> KeyLiteral], model_name |-> ModelNameLiteral]
====
